---------------------------- MODULE Spec2Model ----------------------------
(***************************************************************************)
(* A model of the forecast evaluation harness (evaluation/lib/metrics.py   *)
(* and evaluation/scripts/*.py): the scoring metrics, the cost             *)
(* calculation, the evaluation run of the four evaluate scripts against    *)
(* the forecaster and the experiment-tracking platform, the curation       *)
(* scripts, the dataset loaders on data files of either shape, and the     *)
(* question categorization of categorize.py.                               *)
(*                                                                         *)
(* Numbers.  Probabilities are percentages; the model draws them from the  *)
(* integers.  A metric value v in [0,1] is held as the integer 10^4 * v in *)
(* real arithmetic (the code uses binary floating point, whose last-digit  *)
(* rounding is not modelled).  Money is held in units of 10^-8 USD before  *)
(* rounding and in units of 10^-6 USD after round(.., 6).                  *)
(*                                                                         *)
(* Python dicts are records with a field "keys", the set of keys present,  *)
(* and one field per key that the code reads (0 when the key is absent).   *)
(***************************************************************************)
EXTENDS Integers, Sequences, FiniteSets, TLC

VARIABLES
    (* scoring of one (output, item) pair: lib/metrics.py *)
    mOutput,      \* kwargs['output'] handed to the metrics
    mItem,        \* kwargs['item'] handed to the metrics
    mScores,      \* metric name -> ScoreResult, or NoScores before scoring
    (* cost_utils.calculate_cost *)
    cArgs,        \* [model, input_tokens, output_tokens]
    cCost,        \* what the call returned, or NotComputed
    (* a run of an evaluate script *)
    dataFile,     \* the "questions" list of the data files
    phase,        \* "Pending", "Collecting", "Finalized", "Aborted" or "Crashed"
    args,         \* the arguments of the present run
    questions,    \* the questions the present run loaded
    store,        \* the tracking platform: dataset name -> set of items
    dsName,       \* the name of the present run's dataset
    tasks,        \* the tasks of evaluate(): item -> [st, resp, output, scores]
    width,        \* task_threads of the present run
    calls,        \* question -> number of requests to the forecaster in the run
    trackLog,     \* the calls to the tracking platform in the present run
    runs,         \* the number of runs started
    (* a run of a curator *)
    cPool,        \* the questions the curator has loaded
    cScript,      \* the curator that has run, "" before
    cTarget,      \* its target_count
    cSelected,    \* the selection: positions of the pool
    cPrev,        \* what the run of a curator before this one selected
    (* a call of a dataset loader *)
    lFile,        \* the data file the loader reads: its shape and its items
    lCall,        \* the script, --dataset and --limit of the call
    lResult,      \* what the loader ended with
    lNodes,       \* the upstream nodes that the data file was fetched from
    (* a call of categorize_question *)
    kQuestion,    \* question_data
    kMeta         \* the metadata of the categorized question

scoreVars == <<mOutput, mItem, mScores>>
costVars == <<cArgs, cCost>>
runVars == <<dataFile, phase, args, questions, store, dsName, tasks, width, calls, trackLog, runs>>
curateVars == <<cPool, cScript, cTarget, cSelected, cPrev>>
loadVars == <<lFile, lCall, lResult, lNodes>>
catVars == <<kQuestion, kMeta>>
vars == <<mOutput, mItem, mScores, cArgs, cCost,
          dataFile, phase, args, questions, store, dsName, tasks, width, calls, trackLog, runs,
          cPool, cScript, cTarget, cSelected, cPrev,
          lFile, lCall, lResult, lNodes, kQuestion, kMeta>>

Abs(x) == IF x < 0 THEN -x ELSE x
Min(a, b) == IF a < b THEN a ELSE b
Max(a, b) == IF a < b THEN b ELSE a

(***************************************************************************)
(* lib/metrics.py                                                          *)
(***************************************************************************)

\* Percentages the forecaster or a data file can hold; 150 and -5 stand for
\* values outside [0,100].
Percents == 0..100
AnyPercents == Percents \cup {-5, 150}

\* The outcome dict of a forecast: 'error' and 'probability' are the keys the
\* metrics read; 'cost' stands for any other key of a result object.
OutputKeys == {"error", "probability", "cost"}
Outputs ==
    {[keys |-> k, probability |-> p] : k \in SUBSET OutputKeys, p \in {0}}
    \cup {[keys |-> k, probability |-> p] :
            k \in {s \in SUBSET OutputKeys : "probability" \in s}, p \in AnyPercents}

\* The dataset item dict: 'market_probability' is the key the metrics read.
ScoreItems ==
    {[keys |-> {"question"}, market_probability |-> 0]}
    \cup {[keys |-> {"question", "market_probability"}, market_probability |-> m] :
            m \in AnyPercents}

\* dict.get(key, default) for the two numeric keys.
GetProbability(output, default) ==
    IF "probability" \in output.keys THEN output.probability ELSE default
GetMarket(item, default) ==
    IF "market_probability" \in item.keys THEN item.market_probability ELSE default

\* A mutation of IsErrorOutput: an empty outcome is scored like a success.
IsErrorOutputErrorOnly(output) == "error" \in output.keys

\* `not output or 'error' in output`
IsErrorOutput(output) == output.keys = {} \/ "error" \in output.keys

\* A metric value: a number (times 10^4), or for the log score the form
\* exp(m*ln(p) + (1-m)*ln(1-p)) with p = a/1000 and m = b/1000.
Num(v) == [form |-> "num", a |-> v, b |-> 0]
ExpLog(p, m) == [form |-> "exp_log", a |-> p, b |-> m]

ErrorReason == <<"Error in forecast">>
ErrorScore(name) == [name |-> name, value |-> Num(0), reason |-> ErrorReason]

\* A mutation of BrierScore: the raw Brier score returned without inverting it.
BrierScoreRaw(output, item) ==
    IF IsErrorOutput(output) THEN ErrorScore("brier_score")
    ELSE LET predicted == GetProbability(output, 50)
             market == GetMarket(item, 50)
             brier == (predicted - market) * (predicted - market)
         IN [name |-> "brier_score", value |-> Num(brier),
             reason |-> <<"Market", market, "Predicted", predicted, "Brier", brier>>]

\* A mutation of BrierScore: an outcome with an 'error' is scored like any other.
BrierScoreNoErrorCheck(output, item) ==
    IF output.keys = {} THEN ErrorScore("brier_score")
    ELSE LET predicted == GetProbability(output, 50)
             market == GetMarket(item, 50)
             brier == (predicted - market) * (predicted - market)
         IN [name |-> "brier_score", value |-> Num(10000 - brier),
             reason |-> <<"Market", market, "Predicted", predicted, "Brier", brier>>]

\* BrierScoreMetric.score: predicted and market are held in hundredths, the
\* raw Brier score and the value in units of 10^-4.
BrierScore(output, item) ==
    IF IsErrorOutput(output) THEN ErrorScore("brier_score")
    ELSE LET predicted == GetProbability(output, 50)
             market == GetMarket(item, 50)
             brier == (predicted - market) * (predicted - market)
             normalized == 10000 - brier
         IN [name |-> "brier_score", value |-> Num(normalized),
             reason |-> <<"Market", market, "Predicted", predicted, "Brier", brier>>]

\* max(0.001, min(0.999, x)) for x in hundredths, the result in thousandths.
Clamp(x) == Max(1, Min(999, 10 * x))

\* A mutation of LogScore: the probabilities are not clamped.
LogScoreUnclamped(output, item) ==
    IF IsErrorOutput(output) THEN ErrorScore("log_score")
    ELSE LET predicted == 10 * GetProbability(output, 50)
             market == 10 * GetMarket(item, 50)
         IN [name |-> "log_score", value |-> ExpLog(predicted, market),
             reason |-> <<"Market", market, "Predicted", predicted, "Raw log">>]

\* LogScoreMetric.score: the value is exp(log_score), held as the pair of the
\* clamped probabilities that log_score is computed from.
LogScore(output, item) ==
    IF IsErrorOutput(output) THEN ErrorScore("log_score")
    ELSE LET predicted == Clamp(GetProbability(output, 50))
             market == Clamp(GetMarket(item, 50))
         IN [name |-> "log_score", value |-> ExpLog(predicted, market),
             reason |-> <<"Market", market, "Predicted", predicted, "Raw log">>]

\* CalibrationMetric.score: error in percent, the value in units of 10^-4.
CalibrationScore(output, item) ==
    IF IsErrorOutput(output) THEN ErrorScore("calibration")
    ELSE LET predicted == GetProbability(output, 50)
             market == GetMarket(item, 50)
             error == Abs(predicted - market)
             score == 10000 - 100 * error
         IN [name |-> "calibration", value |-> Num(score),
             reason |-> <<"Market", market, "Predicted", predicted, "Error", error>>]

MetricNames == {"brier_score", "log_score", "calibration"}
NoScores == [n \in {} |-> 0]

\* The three metrics of lib/metrics.py applied to one (output, item) pair.
AllScores(output, item) ==
    [n \in MetricNames |->
        CASE n = "brier_score" -> BrierScore(output, item)
          [] n = "log_score" -> LogScore(output, item)
          [] n = "calibration" -> CalibrationScore(output, item)]

ScoreInit ==
    /\ mOutput \in Outputs
    /\ mItem \in ScoreItems
    /\ mScores = NoScores

ScoreIdle ==
    /\ mOutput = [keys |-> {}, probability |-> 0]
    /\ mItem = [keys |-> {"question"}, market_probability |-> 0]
    /\ mScores = NoScores

\* One call of score(**kwargs) of each metric on the pair.
Score ==
    /\ mScores = NoScores
    /\ mScores' = AllScores(mOutput, mItem)
    /\ UNCHANGED <<mOutput, mItem>>

(***************************************************************************)
(* scripts/cost_utils.py                                                   *)
(***************************************************************************)
\* MODEL_PRICING, in hundredths of a USD per million tokens.
MODEL_PRICING ==
    [m \in {"claude-opus-4-20250514", "claude-3-5-sonnet-20241022", "claude-3-haiku-20240307"} |->
        CASE m = "claude-opus-4-20250514" -> [input |-> 1500, output |-> 7500]
          [] m = "claude-3-5-sonnet-20241022" -> [input |-> 300, output |-> 1500]
          [] m = "claude-3-haiku-20240307" -> [input |-> 25, output |-> 125]]

\* What a call returns: a value in units of 10^-6 USD, or the exception raised.
NotComputed == [status |-> "not called", usd |-> 0]
Returned(v) == [status |-> "returned", usd |-> v]
Raised(e) == [status |-> e, usd |-> 0]

\* round(x, 6) of x given in units of 10^-8 USD, the result in units of
\* 10^-6 USD: to the nearest, a tie to the even neighbour.
Round6(x) ==
    LET q == x \div 100
        r == x % 100
    IN IF r < 50 THEN q
       ELSE IF r > 50 THEN q + 1
       ELSE IF q % 2 = 0 THEN q ELSE q + 1

\* A mutation of calculate_cost: the pricing table is indexed without the
\* fallback to the default model.
calculate_cost_no_default(model, input_tokens, output_tokens) ==
    IF model \notin DOMAIN MODEL_PRICING THEN Raised("KeyError")
    ELSE LET pricing == MODEL_PRICING[model]
         IN Returned(Round6(input_tokens * pricing.input + output_tokens * pricing.output))

\* A mutation of calculate_cost: the sum is truncated instead of rounded.
calculate_cost_truncated(model, input_tokens, output_tokens) ==
    LET pricing == IF model \notin DOMAIN MODEL_PRICING
                   THEN MODEL_PRICING["claude-opus-4-20250514"]
                   ELSE MODEL_PRICING[model]
    IN Returned((input_tokens * pricing.input + output_tokens * pricing.output) \div 100)

\* calculate_cost: input_cost and output_cost in units of 10^-8 USD.
calculate_cost(model, input_tokens, output_tokens) ==
    LET pricing == IF model \notin DOMAIN MODEL_PRICING
                   THEN MODEL_PRICING["claude-opus-4-20250514"]
                   ELSE MODEL_PRICING[model]
        input_cost == input_tokens * pricing.input
        output_cost == output_tokens * pricing.output
    IN Returned(Round6(input_cost + output_cost))

\* The model identifiers a caller passes: the three of the table, and two
\* that are not in it.
ModelIds == DOMAIN MODEL_PRICING \cup {"gpt-4o", ""}
\* Token counts: the small ones, and those of estimate_forecast_cost.
MaxTokens == 3
TokenCounts == 0..MaxTokens \cup {500, 2000}

CostInit ==
    /\ cArgs \in [model : ModelIds, input_tokens : TokenCounts, output_tokens : TokenCounts]
    /\ cCost = NotComputed

CostIdle ==
    /\ cArgs = [model |-> "claude-opus-4-20250514", input_tokens |-> 0, output_tokens |-> 0]
    /\ cCost = NotComputed

\* One call of calculate_cost.
CalculateCost ==
    /\ cCost = NotComputed
    /\ cCost' = calculate_cost(cArgs.model, cArgs.input_tokens, cArgs.output_tokens)
    /\ UNCHANGED cArgs

(***************************************************************************)
(* The data files and the loaders of the four evaluate scripts             *)
(***************************************************************************)
Scripts == {"evaluate", "evaluate_with_meta", "evaluate_v2", "evaluate_categorized"}

\* The market values of the data files and of the loaders are held in
\* hundredths, so that the loaders' x * 100 and x / 100 are exact on the
\* values tried: Hundredths(1) is the float 1.0, Hundredths(30) is 30.0, and
\* 150 is 1.5.
Hundredths(x) == 100 * x

\* A question dict of a data file: question number q stands for its text;
\* 'market_probability' may be missing.  `resolved` says that the text is
\* one that should_filter_resolved_question recognises.
MaxQuestions == 2
Question(n, withMarket, prob, resolved) ==
    [q |-> n,
     keys |-> {"question", "id"} \cup (IF withMarket THEN {"market_probability"} ELSE {}),
     market_probability |-> IF withMarket THEN prob ELSE 0,
     resolved |-> resolved]
RawQuestion(n, withMarket) == Question(n, withMarket, Hundredths(30), FALSE)

\* An entry of metaforecast_cache.json: question number q stands for its
\* title; 'current_probability' may be missing.
CacheEntry(n, withProb, prob) ==
    [q |-> n,
     keys |-> {"title", "id"} \cup (IF withProb THEN {"current_probability"} ELSE {}),
     current_probability |-> IF withProb THEN prob ELSE 0]

\* The "questions" list of a data file: questions 1..MaxQuestions in order.
DataFiles ==
    {[i \in 1..MaxQuestions |-> RawQuestion(i, i \in withMarket)] :
        withMarket \in SUBSET (1..MaxQuestions)}

\* list[:limit] if limit else list  (None and 0 are both false)
Slice(list, limit) ==
    IF limit # 0 THEN SubSeq(list, 1, Min(limit, Len(list))) ELSE list

\* normalize_probability
normalize_probability(prob) == IF prob <= Hundredths(1) THEN prob * 100 ELSE prob

\* q["market_probability"] = normalize_probability(q.get("market_probability", 50))
WithNormalizedMarket(q) ==
    [q EXCEPT !.keys = @ \cup {"market_probability"},
              !.market_probability = normalize_probability(GetMarket(q, Hundredths(50)))]

\* A mutation of DivideLoop: the loop divides down to a fraction.
RECURSIVE DivideLoopToFraction(_)
DivideLoopToFraction(prob) ==
    IF prob > Hundredths(1) THEN DivideLoopToFraction(prob \div 100) ELSE prob

\* while prob > 100: prob = prob / 100
RECURSIVE DivideLoop(_)
DivideLoop(prob) == IF prob > Hundredths(100) THEN DivideLoop(prob \div 100) ELSE prob

\* The 'balanced' branch: q["market_probability"] = min(100, max(0, prob))
WithFixedMarket(q) ==
    [q EXCEPT !.keys = @ \cup {"market_probability"},
              !.market_probability =
                  Min(Hundredths(100), Max(0, DivideLoop(GetMarket(q, Hundredths(50)))))]

MapSeq(Op(_), list) == [i \in 1..Len(list) |-> Op(list[i])]
FilterSeq(Keep(_), list) ==
    LET F[i \in 0..Len(list)] ==
            IF i = 0 THEN << >>
            ELSE IF Keep(list[i]) THEN Append(F[i - 1], list[i]) ELSE F[i - 1]
    IN F[Len(list)]

\* What a loader ends with: the questions, or the end of the process
\* (sys.exit(1), or an exception nobody catches).
Loaded(list) == [exit |-> "", questions |-> list]
Exit(why) == [exit |-> why, questions |-> << >>]

\* should_filter_resolved_question(q.get("question", ""))
should_filter_resolved_question(q) == q.resolved

\* The 'metaforecast' branch: the simple question built from a cache entry
\* that has 'current_probability'; evaluate_with_meta.py normalises the
\* value, evaluate.py takes it as it is.
SimpleQuestion(entry, normalise) ==
    [q |-> entry.q,
     keys |-> {"question", "market_probability", "platform", "id"},
     market_probability |-> IF normalise THEN normalize_probability(entry.current_probability)
                            ELSE entry.current_probability,
     resolved |-> FALSE]
SimpleQuestions(entries, normalise) ==
    LET S[i \in 0..Len(entries)] ==
            IF i = 0 THEN << >>
            ELSE IF "current_probability" \in entries[i].keys
                 THEN Append(S[i - 1], SimpleQuestion(entries[i], normalise))
                 ELSE S[i - 1]
    IN S[Len(entries)]

\* evaluate.py load_dataset, branches current, curated, metaforecast,
\* ai-curated and else.  `missing` says that the branch's data file does not
\* exist.
evaluate_load_dataset(dataset_name, limit, file, missing) ==
    IF dataset_name \notin {"current", "curated", "metaforecast", "ai-curated"}
    THEN Exit("sys.exit")
    ELSE IF dataset_name = "metaforecast"
         THEN IF missing THEN Exit("sys.exit")
              ELSE Loaded(SimpleQuestions(Slice(file, limit), FALSE))
    ELSE IF missing THEN Exit("FileNotFoundError")
    ELSE IF dataset_name = "current"
         THEN Loaded(MapSeq(WithNormalizedMarket, Slice(file, limit)))
         ELSE Loaded(Slice(file, limit))

\* evaluate_with_meta.py load_dataset, branches current, curated,
\* metaforecast, ai-curated, balanced and else.
meta_load_dataset(dataset_name, limit, file, missing) ==
    IF dataset_name \notin {"current", "curated", "metaforecast", "ai-curated", "balanced"}
    THEN Exit("sys.exit")
    ELSE IF dataset_name = "metaforecast"
         THEN IF missing THEN Exit("sys.exit")
              ELSE Loaded(SimpleQuestions(Slice(file, limit), TRUE))
    ELSE IF missing THEN Exit("FileNotFoundError")
    ELSE IF dataset_name = "current"
         THEN LET Kept(q) == ~should_filter_resolved_question(q)
              IN Loaded(Slice(MapSeq(WithNormalizedMarket, FilterSeq(Kept, file)), limit))
    ELSE IF dataset_name = "curated"
         THEN Loaded(MapSeq(WithNormalizedMarket, Slice(file, limit)))
    ELSE IF dataset_name = "balanced"
         THEN Loaded(Slice(MapSeq(WithFixedMarket, file), limit))
         ELSE Loaded(Slice(file, limit))

\* evaluate_v2.py DATASETS
DATASETS == {"metaculus-easy", "metaculus-medium", "metaculus-balanced"}
DatasetFilter(dataset_name, q) ==
    LET p == GetMarket(q, Hundredths(50))
    IN CASE dataset_name = "metaculus-easy" -> p >= Hundredths(80) \/ p <= Hundredths(20)
         [] dataset_name = "metaculus-medium" -> Hundredths(30) <= p /\ p <= Hundredths(70)
         [] OTHER -> TRUE

\* evaluate_v2.py load_questions (the file holds the bare list)
load_questions(dataset_name, limit, file, missing) ==
    IF missing THEN Exit("sys.exit")
    ELSE IF dataset_name \notin DATASETS THEN Exit("sys.exit")
    ELSE LET Keep(q) == DatasetFilter(dataset_name, q)
         IN Loaded(Slice(FilterSeq(Keep, file), limit))

\* categorize_question: the question with a 'metadata' key added.
categorize_question(q) == [q EXCEPT !.keys = @ \cup {"metadata"}]

\* evaluate_categorized.py load_dataset: the file is <dataset_name>_questions.json
categorized_load_dataset(dataset_name, limit, file, missing) ==
    IF missing THEN Exit("sys.exit")
    ELSE Loaded(MapSeq(categorize_question, Slice(file, limit)))

\* A mutation of LoadQuestions: a loader that finds no dataset returns an
\* empty list instead of ending the process.
LoadQuestionsLenient(script, dataset_name, limit, file, missing) ==
    LET known == CASE script = "evaluate" -> {"current", "curated", "metaforecast", "ai-curated"}
                   [] script = "evaluate_with_meta" ->
                        {"current", "curated", "metaforecast", "ai-curated", "balanced"}
                   [] script = "evaluate_v2" -> DATASETS
                   [] OTHER -> {dataset_name}
    IN IF missing \/ dataset_name \notin known THEN Loaded(<< >>)
       ELSE CASE script = "evaluate" -> evaluate_load_dataset(dataset_name, limit, file, missing)
              [] script = "evaluate_with_meta" ->
                    meta_load_dataset(dataset_name, limit, file, missing)
              [] script = "evaluate_v2" -> load_questions(dataset_name, limit, file, missing)
              [] script = "evaluate_categorized" ->
                    categorized_load_dataset(dataset_name, limit, file, missing)

\* The first statements of run_evaluation up to the loaded questions.
\* evaluate_v2.py reads DATASETS[dataset_name] before it loads.
LoadQuestions(script, dataset_name, limit, file, missing) ==
    CASE script = "evaluate" -> evaluate_load_dataset(dataset_name, limit, file, missing)
      [] script = "evaluate_with_meta" -> meta_load_dataset(dataset_name, limit, file, missing)
      [] script = "evaluate_v2" ->
            IF dataset_name \notin DATASETS THEN Exit("KeyError")
            ELSE load_questions(dataset_name, limit, file, missing)
      [] script = "evaluate_categorized" ->
            categorized_load_dataset(dataset_name, limit, file, missing)

\* The --dataset values tried for each script; "nonesuch" is no dataset.
DatasetArgs(script) ==
    CASE script = "evaluate" -> {"current", "curated", "nonesuch"}
      [] script = "evaluate_with_meta" -> {"curated", "ai-curated", "nonesuch"}
      [] script = "evaluate_v2" -> {"metaculus-balanced", "nonesuch"}
      [] script = "evaluate_categorized" -> {"current"}

\* The item that run_evaluation builds from a question for dataset.insert:
\* the question without 'id' (and 'source').  The meta_ fields that
\* evaluate_with_meta.py and evaluate_categorized.py add are computed from
\* the question and are left out.
OpikItem(script, q) ==
    [q EXCEPT !.keys = @ \ {"id", "source", "metadata"}]
OpikItems(script, list) == {OpikItem(script, list[i]) : i \in 1..Len(list)}

\* The name of the tracking dataset (dataset_id, fixed_dataset_name) of a run
\* without --experiment.  All runs happen on one day.  A name built from the
\* time of day is new at every run: "<timestamped>" stands for it.
DatasetId(script, dataset_name) ==
    CASE script = "evaluate" -> "<timestamped>"
      [] script = "evaluate_categorized" -> "<timestamped>"
      [] script = "evaluate_with_meta" -> "forecaster-" \o dataset_name \o "-<date>"
      [] script = "evaluate_v2" -> "forecaster-" \o dataset_name

(***************************************************************************)
(* A call of a loader on a data file of either shape                       *)
(***************************************************************************)
\* The shapes of a data file: the object {"questions": [...]} and the bare
\* list of items.
Shapes == {"object", "list"}

\* What a loop over the object meets: its key, the str "questions".
KeyOfObject == [str |-> "questions"]

\* json.load(f) and the loader's first use of the data, then the loader.
\* evaluate.py and evaluate_with_meta.py index data["questions"] (the
\* 'metaforecast' branch calls data.get), evaluate_v2.py loops over the data
\* and calls the dataset's filter on each element, evaluate_categorized.py
\* tests isinstance(data, dict).
ReadAndLoad(script, dataset_name, limit, shape, items) ==
    LET loaded == LoadQuestions(script, dataset_name, limit, items, FALSE)
    IN IF loaded.exit # "" THEN loaded
       ELSE CASE script \in {"evaluate", "evaluate_with_meta"} ->
                    IF shape = "object" THEN loaded
                    ELSE IF dataset_name = "metaforecast" THEN Exit("AttributeError")
                    ELSE Exit("TypeError")
              [] script = "evaluate_v2" ->
                    IF shape = "list" THEN loaded
                    ELSE IF dataset_name = "metaculus-balanced"
                         THEN Loaded(Slice(<<KeyOfObject>>, limit))
                         ELSE Exit("AttributeError")
              [] script = "evaluate_categorized" -> loaded

\* The --dataset values of each script: its branches, and "nonesuch" for a
\* name it does not know.
LoaderDatasets(script) ==
    CASE script = "evaluate" ->
            {"current", "curated", "metaforecast", "ai-curated", "nonesuch"}
      [] script = "evaluate_with_meta" ->
            {"current", "curated", "metaforecast", "ai-curated", "balanced", "nonesuch"}
      [] script = "evaluate_v2" -> DATASETS \cup {"nonesuch"}
      [] script = "evaluate_categorized" -> {"current"}

\* The market_probability and current_probability values of the data files
\* tried: 0, 0.01, 1, 30, 100, and 150 and 20000 above 100.
MarketValues ==
    {0, 1, Hundredths(1), Hundredths(30), Hundredths(100), Hundredths(150),
     Hundredths(20000)}

\* The data files tried: up to MaxQuestions items, in either shape; a
\* questions file, or the metaforecast cache.
QuestionChoices ==
    [withMarket : {TRUE}, prob : MarketValues, resolved : BOOLEAN]
        \cup [withMarket : {FALSE}, prob : {0}, resolved : BOOLEAN]
CacheChoices ==
    [withProb : {TRUE}, prob : MarketValues] \cup [withProb : {FALSE}, prob : {0}]
LoadFiles ==
    UNION {
        {[shape |-> shape, kind |-> "questions",
          items |-> [i \in 1..n |-> Question(i, c[i].withMarket, c[i].prob, c[i].resolved)]] :
            c \in [1..n -> QuestionChoices], shape \in Shapes}
        \cup
        {[shape |-> shape, kind |-> "cache",
          items |-> [i \in 1..n |-> CacheEntry(i, c[i].withProb, c[i].prob)]] :
            c \in [1..n -> CacheChoices], shape \in Shapes}
        : n \in 0..MaxQuestions}

NoFile == [shape |-> "", kind |-> "", items |-> << >>]
NoCall == [script |-> "", dataset_name |-> "", limit |-> 0]
NotCalled == Exit("not called")

\* The data file is there, or current_questions.json is still to be fetched.
LoadInit ==
    /\ lFile \in LoadFiles \cup {NoFile}
    /\ lCall = NoCall
    /\ lResult = NotCalled
    /\ lNodes = << >>

LoadIdle ==
    /\ lFile = NoFile
    /\ lCall = NoCall
    /\ lResult = NotCalled
    /\ lNodes = << >>

\* One call of a script's loader; the 'metaforecast' branches read the
\* cache, the others a questions file.
Load(script, dataset_name, limit) ==
    /\ lCall = NoCall
    /\ lFile # NoFile
    /\ (dataset_name = "metaforecast") <=> (lFile.kind = "cache")
    /\ lCall' = [script |-> script, dataset_name |-> dataset_name, limit |-> limit]
    /\ lResult' = ReadAndLoad(script, dataset_name, limit, lFile.shape, lFile.items)
    /\ UNCHANGED <<lFile, lNodes, scoreVars, costVars, runVars, curateVars, catVars>>

(***************************************************************************)
(* The forecaster call                                                     *)
(***************************************************************************)
\* What requests.post(.., timeout=30) meets: a {success: true, result}
\* body, a {success: false, error} body, an HTTP error status
\* (raise_for_status raises), a transport failure, or no answer within the
\* 30 seconds.
Response(kind) ==
    [kind |-> kind,
     keys |-> IF kind = "success" THEN {"probability", "cost"} ELSE {},
     probability |-> IF kind = "success" THEN 70 ELSE 0]
FailureKinds == {"failure", "http_error", "transport", "timeout"}
Responses == {Response(k) : k \in {"success"} \cup FailureKinds}
NoResponse == Response("none")

EmptyDict == [keys |-> {}, probability |-> 0]
ErrorDict == [keys |-> {"error"}, probability |-> 0]

\* A mutation of call_forecaster: the except branch returns an empty dict
\* instead of {"error": str(e)}.
call_forecaster_empty_on_exception(script, resp) ==
    IF resp.kind \in {"http_error", "transport", "timeout"} THEN EmptyDict
    ELSE IF script \in {"evaluate", "evaluate_with_meta"}
         THEN IF resp.kind = "success"
              THEN [keys |-> resp.keys, probability |-> resp.probability]
              ELSE ErrorDict
         ELSE IF resp.kind = "success"
              THEN [keys |-> {"success", "result"}, probability |-> 0]
              ELSE [keys |-> {"success", "error"}, probability |-> 0]

\* call_forecaster.  evaluate.py and evaluate_with_meta.py unwrap the body;
\* evaluate_v2.py and evaluate_categorized.py return response.json() as it is.
call_forecaster(script, resp) ==
    IF resp.kind \in {"http_error", "transport", "timeout"} THEN ErrorDict
    ELSE IF script \in {"evaluate", "evaluate_with_meta"}
         THEN IF resp.kind = "success"
              THEN [keys |-> resp.keys, probability |-> resp.probability]
              ELSE ErrorDict
         ELSE IF resp.kind = "success"
              THEN [keys |-> {"success", "result"}, probability |-> 0]
              ELSE [keys |-> {"success", "error"}, probability |-> 0]

(***************************************************************************)
(* eval_task and the scoring of its result                                 *)
(***************************************************************************)
\* item['market_probability'] is read before the call in evaluate.py,
\* evaluate_with_meta.py and evaluate_categorized.py: a KeyError when the
\* item has none.
RaisesBeforeCall(script, item) ==
    script # "evaluate_v2" /\ "market_probability" \notin item.keys

\* evaluate_v2.py reads it after the call, when the output has no 'error'.
RaisesAfterCall(script, item, output) ==
    /\ script = "evaluate_v2"
    /\ "error" \notin output.keys
    /\ "market_probability" \notin item.keys

\* The item as eval_task leaves it: evaluate_with_meta.py sets item['cost_usd'].
ItemAfterTask(script, item) ==
    IF script = "evaluate_with_meta" THEN [item EXCEPT !.keys = @ \cup {"cost_usd"}] ELSE item

\* The keys of the dict that eval_task returns; evaluate_v2.py returns the
\* output of call_forecaster itself.
ResultKeys(script, output) ==
    CASE script = "evaluate" -> {"output", "item"}
      [] script = "evaluate_with_meta" ->
            {"output", "item", "cost_usd", "metadata", "feedback_scores"}
      [] script = "evaluate_categorized" -> {"output", "item", "metadata"}
      [] script = "evaluate_v2" -> output.keys

\* kwargs['output'] and kwargs['item'] of the metrics: the task's result is
\* {"output": output, "item": item, ..}, except in evaluate_v2.py, whose
\* task returns the output itself, so that both keys are missing.
MetricOutput(script, output) == IF script = "evaluate_v2" THEN EmptyDict ELSE output
\* The metrics hold the market value in whole percent points.
MetricItem(script, item) ==
    IF script = "evaluate_v2" THEN [item EXCEPT !.keys = {}]
    ELSE [ItemAfterTask(script, item) EXCEPT !.market_probability = @ \div 100]

\* scoring_metrics=[BrierScoreMetric(), LogScoreMetric()]
ScoringMetrics == {"brier_score", "log_score"}

TaskScores(script, item, output) ==
    [n \in ScoringMetrics |-> AllScores(MetricOutput(script, output), MetricItem(script, item))[n]]

(***************************************************************************)
(* A run of one of the evaluate scripts: run_evaluation, the tracking      *)
(* platform's evaluate() with its pool of task_threads workers, and the    *)
(* datasets the platform keeps from run to run.                            *)
(*                                                                         *)
(* The tracking platform is not part of the repository.  It is taken to    *)
(* behave as its client library documents: a dataset lives on the platform *)
(* under its name and get_or_create_dataset returns it with its items;     *)
(* insert adds items and keeps equal items once; evaluate() runs the task  *)
(* once on every item of the dataset on at most task_threads workers,      *)
(* scores each result with the scoring_metrics, and raises an exception of *)
(* a task again once the workers have ended.                               *)
(***************************************************************************)
MaxRuns == 2
MaxLimit == 1
MaxWidth == 2
\* task_threads=16 of evaluate.py, evaluate_with_meta.py, evaluate_categorized.py
TaskThreads == 16

NoArgs == [script |-> "", dataset_name |-> "", missing |-> FALSE]
NoDatasets == [n \in {} |-> {}]
NoTasks == [i \in {} |-> 0]
NoCalls == [q \in 1..MaxQuestions |-> 0]

\* A task of evaluate(): its state, the response its request met, what
\* call_forecaster returned, the item dict as the task has left it, the keys
\* of the dict the task returned, and the scores of its result.
Queued ==
    [st |-> "queued", resp |-> NoResponse, output |-> EmptyDict,
     item |-> EmptyDict, result |-> {}, scores |-> NoScores]

TasksIn(states) == {i \in DOMAIN tasks : tasks[i].st \in states}

RunInit ==
    /\ dataFile \in DataFiles
    /\ phase = "Pending"
    /\ args = NoArgs
    /\ questions = << >>
    /\ store = NoDatasets
    /\ dsName = ""
    /\ tasks = NoTasks
    /\ width = 0
    /\ calls = NoCalls
    /\ trackLog = << >>
    /\ runs = 0

\* client.get_or_create_dataset(name) followed by dataset.insert(items): the
\* platform keeps what a dataset of that name already holds, and holds equal
\* items once.
GetOrCreateAndInsert(datasets, name, items) ==
    IF name \in DOMAIN datasets
    THEN [datasets EXCEPT ![name] = @ \cup items]
    ELSE (name :> items) @@ datasets

\* evaluate_v2.py get_or_create_fixed_dataset: an existing dataset is used as
\* it is, the questions are inserted only into a new one.
get_or_create_fixed_dataset(datasets, name, items) ==
    IF name \in DOMAIN datasets THEN datasets ELSE (name :> items) @@ datasets

\* The tracking platform after run_evaluation has prepared its dataset.
PrepareDataset(script, datasets, name, items) ==
    IF script = "evaluate_v2" THEN get_or_create_fixed_dataset(datasets, name, items)
    ELSE GetOrCreateAndInsert(datasets, name, items)

\* The calls run_evaluation makes to the tracking platform up to evaluate().
TrackingCalls(script, datasets, name) ==
    IF script = "evaluate_v2"
    THEN IF name \in DOMAIN datasets THEN <<"get_dataset", "evaluate">>
         ELSE <<"get_dataset", "create_dataset", "insert", "evaluate">>
    ELSE <<"get_or_create_dataset", "insert", "evaluate">>

\* run_evaluation from its first statement to the start of evaluate(): the
\* questions are loaded, and either the process ends there, or the dataset is
\* prepared and evaluate() queues one task for each item of the dataset.
StartRun(s, d, l, missing, w) ==
    /\ phase = "Pending"
    /\ runs < MaxRuns
    /\ runs' = runs + 1
    /\ args' = [script |-> s, dataset_name |-> d, missing |-> missing]
    /\ calls' = NoCalls
    /\ UNCHANGED <<dataFile, scoreVars, costVars, curateVars, loadVars, catVars>>
    /\ LET loaded == LoadQuestions(s, d, l, dataFile, missing)
           name == DatasetId(s, d)
       IN IF loaded.exit # ""
          THEN /\ phase' = "Aborted"
               /\ questions' = << >>
               /\ dsName' = ""
               /\ tasks' = NoTasks
               /\ width' = 0
               /\ trackLog' = << >>
               /\ UNCHANGED store
          ELSE LET prepared ==
                       PrepareDataset(s, store, name, OpikItems(s, loaded.questions))
               IN /\ phase' = "Collecting"
                  /\ questions' = loaded.questions
                  /\ dsName' = name
                  \* a dataset named by the time of day is never met again
                  /\ store' = IF name = "<timestamped>" THEN store ELSE prepared
                  /\ trackLog' = TrackingCalls(s, store, name)
                  /\ tasks' = [i \in prepared[name] |-> [Queued EXCEPT !.item = i]]
                  /\ width' = w

\* A free worker takes a queued item and runs eval_task up to the request
\* to the forecaster.
TaskStart(i) ==
    /\ phase = "Collecting"
    /\ i \in TasksIn({"queued"})
    /\ Cardinality(TasksIn({"running"})) < width
    /\ IF RaisesBeforeCall(args.script, i)
       THEN /\ tasks' = [tasks EXCEPT ![i].st = "raised"]
            /\ UNCHANGED calls
       ELSE /\ tasks' = [tasks EXCEPT ![i].st = "running"]
            /\ calls' = [calls EXCEPT ![i.q] = @ + 1]
    /\ UNCHANGED <<dataFile, phase, args, questions, store, dsName, width, trackLog, runs>>
    /\ UNCHANGED <<scoreVars, costVars, curateVars, loadVars, catVars>>

\* The request of a running task ends (a response, or the timeout);
\* call_forecaster returns, eval_task returns or raises, and the result is
\* scored.
TaskFinish(i, resp) ==
    /\ phase = "Collecting"
    /\ i \in TasksIn({"running"})
    /\ LET output == call_forecaster(args.script, resp)
       IN tasks' = [tasks EXCEPT ![i] =
            IF RaisesAfterCall(args.script, i, output)
            THEN [st |-> "raised", resp |-> resp, output |-> output,
                  item |-> i, result |-> {}, scores |-> NoScores]
            ELSE [st |-> "done", resp |-> resp, output |-> output,
                  item |-> ItemAfterTask(args.script, i),
                  result |-> ResultKeys(args.script, output),
                  scores |-> TaskScores(args.script, i, output)]]
    /\ UNCHANGED <<dataFile, phase, args, questions, store, dsName, width, calls, trackLog, runs>>
    /\ UNCHANGED <<scoreVars, costVars, curateVars, loadVars, catVars>>

\* evaluate() returns when every task has ended; an exception of a task is
\* raised again there and ends the script.
Finish ==
    /\ phase = "Collecting"
    /\ TasksIn({"queued", "running"}) = {}
    /\ phase' = IF TasksIn({"raised"}) # {} THEN "Crashed" ELSE "Finalized"
    /\ UNCHANGED <<dataFile, args, questions, store, dsName, tasks, width, calls, trackLog,
                   runs, scoreVars, costVars, curateVars, loadVars, catVars>>

\* The process of the script ends; the tracking platform keeps its datasets.
ProcessExit ==
    /\ phase \in {"Finalized", "Aborted", "Crashed"}
    /\ phase' = "Pending"
    /\ args' = NoArgs
    /\ questions' = << >>
    /\ dsName' = ""
    /\ tasks' = NoTasks
    /\ width' = 0
    /\ calls' = NoCalls
    /\ trackLog' = << >>
    /\ UNCHANGED <<dataFile, store, runs, scoreVars, costVars, curateVars, loadVars, catVars>>

RunIdle == RunInit /\ dataFile = [i \in 1..MaxQuestions |-> RawQuestion(i, TRUE)]

Next ==
    \* --limit is absent (0) or MaxLimit
    \/ \E s \in Scripts : \E d \in DatasetArgs(s) : \E l \in {0, MaxLimit} :
         \E missing \in BOOLEAN :
           \E w \in IF s = "evaluate_v2" THEN 1..MaxWidth ELSE {TaskThreads} :
             StartRun(s, d, l, missing, w)
    \/ \E i \in DOMAIN tasks : TaskStart(i)
    \/ \E i \in DOMAIN tasks : \E resp \in Responses : TaskFinish(i, resp)
    \/ Finish
    \/ ProcessExit

(***************************************************************************)
(* The curators: create_balanced_dataset.py, curate_diverse_questions.py   *)
(* and fetch_current_data.categorize_and_select                            *)
(***************************************************************************)
Curators == {"create_balanced_dataset", "curate_diverse_questions", "categorize_and_select"}

\* 50, the size both scripts aim at and the default target_count
TargetCount == 50
\* target_per_bucket of create_balanced_dataset.py
target_per_bucket == 10
\* target_per_category of curate_diverse_questions.py
target_per_category == 8
\* the F1 finishing-position questions that are kept
F1Cap == 2

MaxPool == 11
MaxF1 == 3
MaxDups == 1
MaxQuality == 1

\* The probabilities of the pool's questions, one in each probability range
\* of either script.
BandProbs == <<5, 25, 50, 75, 95>>
PoolKinds == <<"general", "other_sports", "politics">>
Layouts == {"general", "politics", "spread"}

\* A question dict of the pool.  kind stands for what the title matches:
\* "f1" is a title such as "Will X finish fourth in the F1 drivers
\* championship", which matches the F1 test of both scripts and the skip
\* patterns of categorize_and_select.  Two entries are equal dicts exactly
\* when they are equal records.
PoolQuestion(i, f, layout) ==
    [id |-> i,
     kind |-> IF i <= f THEN "f1"
              ELSE IF layout = "spread" THEN PoolKinds[(i % Len(PoolKinds)) + 1]
              ELSE layout,
     prob |-> IF layout = "spread" THEN BandProbs[(i % Len(BandProbs)) + 1] ELSE 50,
     quality |-> i % (MaxQuality + 1)]

\* The pool of n questions of which the first f are F1 questions; an entry
\* at a position of dups repeats the entry before it (a question that the
\* source lists twice).
Pool(n, f, layout, dups) ==
    LET P[i \in 0..n] ==
            IF i = 0 THEN << >>
            ELSE IF i > 1 /\ i \in dups THEN Append(P[i - 1], P[i - 1][i - 1])
            ELSE Append(P[i - 1], PoolQuestion(i, f, layout))
    IN P[n]

Pools ==
    {Pool(n, f, layout, dups) :
        n \in 0..MaxPool, f \in 0..MaxF1, layout \in Layouts,
        dups \in {d \in SUBSET (2..MaxPool) : Cardinality(d) <= MaxDups}}

\* The positions of a list that satisfy a test, in the list's order.
Positions(list, Test(_)) ==
    LET F[i \in 0..Len(list)] ==
            IF i = 0 THEN << >>
            ELSE IF Test(list[i]) THEN Append(F[i - 1], i) ELSE F[i - 1]
    IN F[Len(list)]

\* A set of positions as a list, in ascending order.
RECURSIVE Ascending(_)
Ascending(S) ==
    IF S = {} THEN << >>
    ELSE LET m == CHOOSE x \in S : \A y \in S : x <= y
         IN <<m>> \o Ascending(S \ {m})

\* random.sample(population, k): any k of the positions.
Samples(S, k) == {T \in SUBSET S : Cardinality(T) = k}

\* `q not in selected`: no selected entry is an equal dict.
NotInSelected(pool, selected, p) == \A s \in selected : pool[s] # pool[p]

IsF1(q) == q.kind = "f1"

\* create_balanced_dataset.py: the probability bucket of a question
ProbBucket(prob) ==
    IF prob < 20 THEN 1 ELSE IF prob < 40 THEN 2 ELSE IF prob < 60 THEN 3
    ELSE IF prob < 80 THEN 4 ELSE 5

FilteredQuestionsNoCap(pool) == 1..Len(pool)

\* create_balanced_dataset.py: filtered_questions, the pool with the first
\* two F1 questions only.
FilteredQuestions(pool) ==
    LET f1 == Positions(pool, IsF1)
        kept == {f1[k] : k \in 1..Min(F1Cap, Len(f1))}
    IN {p \in 1..Len(pool) : ~IsF1(pool[p]) \/ p \in kept}

\* create_balanced_dataset.py: what a bucket gives to the selection
BucketChoices(bucket) ==
    IF Cardinality(bucket) >= target_per_bucket THEN Samples(bucket, target_per_bucket)
    ELSE {bucket}

\* What random.sample(candidates, min(remaining_needed, len(candidates))) adds.
FillChoices(candidates, selected) ==
    IF Cardinality(selected) < TargetCount
    THEN Samples(candidates, Min(TargetCount - Cardinality(selected), Cardinality(candidates)))
    ELSE {{}}

\* selected[:50] after random.shuffle(selected): the list holds at most 50
\* entries whenever it is cut, so the cut keeps them all; kept in ascending
\* order of position, the order being the shuffle's.
Truncated(selected) == SubSeq(Ascending(selected), 1, Min(TargetCount, Cardinality(selected)))

\* No run of a curator came before.
NoPrev == [script |-> "", target |-> 0, selected |-> << >>]

CurateInit ==
    /\ cPool \in Pools
    /\ cScript = ""
    /\ cTarget = 0
    /\ cSelected = << >>
    /\ cPrev = NoPrev

CurateIdle ==
    /\ cPool = << >>
    /\ cScript = ""
    /\ cTarget = 0
    /\ cSelected = << >>
    /\ cPrev = NoPrev

\* create_balanced_dataset.py, from filtered_questions to selected[:50].
CreateBalancedDataset ==
    /\ cScript = ""
    /\ LET filtered == FilteredQuestions(cPool)
           Bucket(b) == {p \in filtered : ProbBucket(cPool[p].prob) = b}
       IN \E s1 \in BucketChoices(Bucket(1)) : \E s2 \in BucketChoices(Bucket(2)) :
          \E s3 \in BucketChoices(Bucket(3)) : \E s4 \in BucketChoices(Bucket(4)) :
          \E s5 \in BucketChoices(Bucket(5)) :
            LET selected == s1 \cup s2 \cup s3 \cup s4 \cup s5
                all_unselected == {p \in filtered : NotInSelected(cPool, selected, p)}
            IN \E fill \in FillChoices(all_unselected, selected) :
                 cSelected' = Truncated(selected \cup fill)
    /\ cScript' = "create_balanced_dataset"
    /\ cTarget' = TargetCount
    /\ UNCHANGED <<cPool, cPrev, scoreVars, costVars, runVars, loadVars, catVars>>

\* curate_diverse_questions.py: what a category gives to the selection
CategoryChoices(category, k) == Samples(category, Min(k, Cardinality(category)))

\* curate_diverse_questions.py, from the categories to selected[:50].
CurateDiverseQuestions ==
    /\ cScript = ""
    /\ LET Category(kind) == {p \in 1..Len(cPool) : cPool[p].kind = kind}
       IN \E f1 \in CategoryChoices(Category("f1"), F1Cap) :
          \E sports \in CategoryChoices(Category("other_sports"), target_per_category) :
          \E politics \in CategoryChoices(Category("politics"), target_per_category) :
            LET categories == f1 \cup sports \cup politics
                remaining_needed == TargetCount - Cardinality(categories)
                generals == IF remaining_needed > 0
                            THEN CategoryChoices(Category("general"), remaining_needed)
                            ELSE {{}}
            IN \E general \in generals :
                 LET selected == categories \cup general
                     all_non_f1 == {p \in 1..Len(cPool) :
                                      /\ ~IsF1(cPool[p])
                                      /\ NotInSelected(cPool, selected, p)}
                 IN \E fill \in FillChoices(all_non_f1, selected) :
                      cSelected' = Truncated(selected \cup fill)
    /\ cScript' = "curate_diverse_questions"
    /\ cTarget' = TargetCount
    /\ UNCHANGED <<cPool, cPrev, scoreVars, costVars, runVars, loadVars, catVars>>

\* categorize_and_select: list.sort(key=quality_score, reverse=True), which
\* keeps the order of entries of equal quality.
RECURSIVE SortedFrom(_, _, _)
SortedFrom(pool, list, level) ==
    IF level < 0 THEN << >>
    ELSE LET AtLevel(p) == pool[p].quality = level
         IN FilterSeq(AtLevel, list) \o SortedFrom(pool, list, level - 1)

\* categorize_and_select: the probability range of a question
ProbRange(prob) ==
    IF prob < 10 THEN 1 ELSE IF prob < 30 THEN 2 ELSE IF prob < 70 THEN 3
    ELSE IF prob < 90 THEN 4 ELSE 5

\* list[:k] and list[k:]
Prefix(list, k) == SubSeq(list, 1, Min(k, Len(list)))
Suffix(list, k) == SubSeq(list, Min(k, Len(list)) + 1, Len(list))

\* A mutation of categorize_and_select: the best target_count questions by
\* quality, whatever their probability range.
categorize_and_select_top_quality(pool, target_count) ==
    LET NotSkipped(q) == ~IsF1(q)
    IN Prefix(SortedFrom(pool, Positions(pool, NotSkipped), MaxQuality), target_count)

\* categorize_and_select(questions, target_count): the positions selected.
categorize_and_select(pool, target_count) ==
    LET NotSkipped(q) == ~IsF1(q)
        filtered == SortedFrom(pool, Positions(pool, NotSkipped), MaxQuality)
        InRange(r) == LET Test(p) == ProbRange(pool[p].prob) = r IN FilterSeq(Test, filtered)
        per_range == target_count \div 5
        RECURSIVE Heads(_), Tails(_)
        Heads(r) == IF r = 0 THEN << >> ELSE Heads(r - 1) \o Prefix(InRange(r), per_range)
        Tails(r) == IF r = 0 THEN << >> ELSE Tails(r - 1) \o Suffix(InRange(r), per_range)
        selected == Heads(5)
        remaining_slots == target_count - Len(selected)
        all_remaining == SortedFrom(pool, Tails(5), MaxQuality)
        filled == IF remaining_slots > 0
                  THEN selected \o Prefix(all_remaining, remaining_slots)
                  ELSE selected
    IN Prefix(filled, target_count)

\* The target_count values tried.
TargetCounts == {0, 3, 7, TargetCount}

CategorizeAndSelect(target_count) ==
    /\ cScript = ""
    /\ cSelected' = categorize_and_select(cPool, target_count)
    /\ cScript' = "categorize_and_select"
    /\ cTarget' = target_count
    /\ UNCHANGED <<cPool, cPrev, scoreVars, costVars, runVars, loadVars, catVars>>

\* The curator's process ends and the operator starts a curator again on the
\* same data files.  Neither script calls random.seed and neither reads a
\* seed from its command line or its environment: the new process seeds the
\* generator of `random` from the operating system again, so its samples are
\* chosen afresh.
RunAgain ==
    /\ cScript # ""
    /\ cPrev = NoPrev
    /\ cPrev' = [script |-> cScript, target |-> cTarget, selected |-> cSelected]
    /\ cScript' = ""
    /\ cTarget' = 0
    /\ cSelected' = << >>
    /\ UNCHANGED <<cPool, scoreVars, costVars, runVars, loadVars, catVars>>

(***************************************************************************)
(* fetch_current_data.py: from the upstream nodes to current_questions.json *)
(***************************************************************************)
\* An upstream node with two options: `probability` is that of its "yes"
\* option, a fraction from 0 to 1.
Node(n, prob) == [q |-> n, keys |-> {"title", "id", "options"}, probability |-> prob]
\* The fractions tried, in hundredths: 0, 0.01, 0.3 and 1.
UpstreamValues == {0, 1, 30, Hundredths(1)}
UpstreamNodes ==
    UNION {{[i \in 1..n |-> Node(i, c[i])] : c \in [1..n -> UpstreamValues]} :
              n \in 1..MaxQuestions}

\* fetch_current_questions: node["current_probability"] = prob * 100 if prob <= 1 else prob
FetchedQuestion(node) ==
    [q |-> node.q,
     keys |-> node.keys \cup {"current_probability", "last_updated"},
     current_probability |-> IF node.probability <= Hundredths(1)
                             THEN node.probability * 100 ELSE node.probability]

\* save_current_dataset: the formatted question
FormattedQuestion(q) ==
    [q |-> q.q,
     keys |-> {"question", "market_probability", "platform", "url", "id",
               "last_updated", "category"},
     market_probability |-> IF "current_probability" \in q.keys
                            THEN q.current_probability ELSE Hundredths(50),
     resolved |-> FALSE]

\* fetch_current_data.py main: fetch_current_questions, categorize_and_select
\* (fewer questions than its target: all of them, range by range) and
\* save_current_dataset.  The titles are such that neither the skip
\* patterns nor the loader's filter recognise them.
FetchCurrentData(nodes) ==
    /\ lFile = NoFile
    /\ lCall = NoCall
    /\ LET all_questions == MapSeq(FetchedQuestion, nodes)
           InRange(r) ==
               LET Test(q) == ProbRange(q.current_probability \div 100) = r
               IN FilterSeq(Test, all_questions)
           selected == InRange(1) \o InRange(2) \o InRange(3) \o InRange(4) \o InRange(5)
       IN lFile' = [shape |-> "object", kind |-> "questions",
                    items |-> MapSeq(FormattedQuestion, selected)]
    /\ lNodes' = nodes
    /\ UNCHANGED <<lCall, lResult, scoreVars, costVars, runVars, curateVars, catVars>>

(***************************************************************************)
(* categorize.py.  A text is a string; its characters are its substrings   *)
(* of length one.                                                          *)
(***************************************************************************)
\* pat in text
Contains(text, pat) ==
    \E i \in 1..(Len(text) - Len(pat) + 1) : SubSeq(text, i, i + Len(pat) - 1) = pat
\* text.startswith(pat), text.endswith(pat)
StartsWith(text, pat) == Len(pat) <= Len(text) /\ SubSeq(text, 1, Len(pat)) = pat
EndsWith(text, pat) ==
    Len(pat) <= Len(text) /\ SubSeq(text, Len(text) - Len(pat) + 1, Len(text)) = pat

\* str.lower(), on the letters A to Z
UpperLetters == "ABCDEFGHIJKLMNOPQRSTUVWXYZ"
LowerLetters == "abcdefghijklmnopqrstuvwxyz"
LowerOf ==
    [c \in {SubSeq(UpperLetters, i, i) : i \in 1..Len(UpperLetters)} |->
        LET i == CHOOSE i \in 1..Len(UpperLetters) : SubSeq(UpperLetters, i, i) = c
        IN SubSeq(LowerLetters, i, i)]
LowerChar(c) == IF c \in DOMAIN LowerOf THEN LowerOf[c] ELSE c
RECURSIVE Lower(_)
Lower(text) == IF text = "" THEN "" ELSE LowerChar(Head(text)) \o Lower(Tail(text))

\* \d of a regular expression, and int() of a string of digits
Digits == "0123456789"
IsDigit(c) == \E i \in 1..Len(Digits) : SubSeq(Digits, i, i) = c
DigitValue(c) == (CHOOSE i \in 1..Len(Digits) : SubSeq(Digits, i, i) = c) - 1
RECURSIVE IntOf(_)
IntOf(digits) ==
    IF digits = "" THEN 0
    ELSE IntOf(SubSeq(digits, 1, Len(digits) - 1)) * 10
            + DigitValue(SubSeq(digits, Len(digits), Len(digits)))

TOPIC_KEYWORDS == <<
    [topic |-> "sports", keywords |->
         <<"nba", "nfl", "mlb", "nhl", "soccer", "football", "basketball",
           "baseball", "hockey", "tennis", "golf", "olympics",
           "championship", "tournament", "mvp", "rookie", "season", "game",
           "match", "team", "player", "coach", "league", "world cup",
           "super bowl", "finals", "playoff", "win the", "score", "motogp",
           "formula", "racing", "athletic", "athlete", "sport">>],
    [topic |-> "politics", keywords |->
         <<"election", "vote", "president", "senator", "congress",
           "parliament", "governor", "mayor", "party", "democrat",
           "republican", "campaign", "candidate", "primary", "caucus",
           "poll", "debate", "government", "minister", "cabinet", "policy",
           "legislation", "bill", "law", "political", "politician",
           "borough", "mayoral", "gubernatorial", "house of councillors",
           "seats", "ldp", "komeito", "jcp", "jip", "dpp", "councillors",
           "council", "assembly", "senate", "representatives">>],
    [topic |-> "economics", keywords |->
         <<"gdp", "inflation", "unemployment", "recession", "economy",
           "economic", "market", "stock", "bond", "interest rate",
           "federal reserve", "fed", "price", "dollar", "euro", "currency",
           "trade", "tariff", "budget", "debt", "deficit", "growth",
           "earnings", "revenue", "profit">>],
    [topic |-> "technology", keywords |->
         <<"ai", "artificial intelligence", "machine learning", "robot",
           "software", "hardware", "computer", "internet", "tech", "startup",
           "ipo", "release", "launch", "update", "version", "app",
           "platform", "digital", "cyber", "quantum", "blockchain",
           "cryptocurrency", "bitcoin", "ethereum">>],
    [topic |-> "science", keywords |->
         <<"research", "study", "scientist", "discovery", "experiment",
           "theory", "physics", "chemistry", "biology", "medicine", "space",
           "nasa", "climate", "temperature", "weather", "earthquake",
           "volcano", "pandemic", "virus", "vaccine", "treatment",
           "diagnosis", "breakthrough", "innovation">>],
    [topic |-> "entertainment", keywords |->
         <<"movie", "film", "box office", "oscar", "grammy", "emmy", "award",
           "music", "album", "song", "artist", "actor", "actress",
           "director", "show", "series", "netflix", "streaming", "release",
           "premiere", "concert", "tour", "festival", "performance">>],
    [topic |-> "geopolitics", keywords |->
         <<"war", "peace", "treaty", "alliance", "nato", "un",
           "united nations", "sanctions", "diplomatic", "ambassador",
           "embassy", "international", "border", "conflict", "military",
           "defense", "security", "foreign", "relations", "agreement",
           "negotiation", "summit">>]>>

\* The condition of `score += 1` for a keyword
KeywordHit(keyword, question_lower) ==
    \/ Contains(" " \o question_lower \o " ", " " \o keyword \o " ")
    \/ StartsWith(question_lower, keyword \o " ")
    \/ EndsWith(question_lower, " " \o keyword)

\* score of a topic: one for each of its keywords that hits
TopicScore(t, question_lower) ==
    Cardinality({k \in 1..Len(TOPIC_KEYWORDS[t].keywords) :
                    KeywordHit(TOPIC_KEYWORDS[t].keywords[k], question_lower)})

\* classify_topic: max(topic_scores.items(), key=score) gives the first of
\* the topics of highest score, in the order of the table.
classify_topic(question) ==
    LET question_lower == Lower(question)
        score == [t \in 1..Len(TOPIC_KEYWORDS) |-> TopicScore(t, question_lower)]
        topic_scores == {t \in 1..Len(TOPIC_KEYWORDS) : score[t] > 0}
    IN IF topic_scores = {} THEN "other"
       ELSE LET best == CHOOSE t \in topic_scores :
                            \A u \in topic_scores :
                                score[u] < score[t] \/ (score[u] = score[t] /\ t <= u)
            IN TOPIC_KEYWORDS[best].topic

\* re.findall(r'20\d{2}', question): the matches from left to right, each
\* search starting where the match before it ended.
RECURSIVE FindYears(_, _)
FindYears(question, from) ==
    IF from + 3 > Len(question) THEN << >>
    ELSE IF /\ SubSeq(question, from, from + 1) = "20"
            /\ IsDigit(SubSeq(question, from + 2, from + 2))
            /\ IsDigit(SubSeq(question, from + 3, from + 3))
         THEN <<SubSeq(question, from, from + 3)>> \o FindYears(question, from + 4)
         ELSE FindYears(question, from + 1)

current_year == 2025

\* get_time_horizon
get_time_horizon(question) ==
    LET question_lower == Lower(question)
        years == FindYears(question, 1)
        AnyIn(words) == \E w \in words : Contains(question_lower, w)
    IN IF years # << >>
       THEN LET max_year == CHOOSE y \in {IntOf(years[i]) : i \in 1..Len(years)} :
                                \A i \in 1..Len(years) : IntOf(years[i]) <= y
            IN ToString(max_year)
       ELSE IF AnyIn({"this year", "this season"}) THEN ToString(current_year)
       ELSE IF AnyIn({"next year", "next season"}) THEN ToString(current_year + 1)
       ELSE IF AnyIn({"this month", "next month", "july", "august", "september"})
            THEN ToString(current_year)
       ELSE "no_year"

\* The conditions of get_question_type, in the order of the if/elif chain,
\* and their labels.
QuestionTypes ==
    <<"competition_outcome", "threshold_question", "event_occurrence",
      "numerical_prediction", "selection_question">>
RuleMatches(rule, question_lower) ==
    LET AnyIn(words) == \E w \in words : Contains(question_lower, w)
    IN CASE rule = 1 -> StartsWith(question_lower, "will") /\ Contains(question_lower, "win")
         [] rule = 2 -> /\ StartsWith(question_lower, "will")
                        /\ AnyIn({"be", "reach", "exceed", "above", "below"})
         [] rule = 3 -> /\ StartsWith(question_lower, "will")
                        /\ AnyIn({"happen", "occur", "take place"})
         [] rule = 4 -> AnyIn({"how many", "how much"})
         [] rule = 5 -> StartsWith(question_lower, "who will")

\* A mutation of get_question_type: the threshold test comes first.
get_question_type_threshold_first(question) ==
    LET question_lower == Lower(question)
    IN IF RuleMatches(2, question_lower) THEN QuestionTypes[2]
       ELSE IF RuleMatches(1, question_lower) THEN QuestionTypes[1]
       ELSE IF RuleMatches(3, question_lower) THEN QuestionTypes[3]
       ELSE IF RuleMatches(4, question_lower) THEN QuestionTypes[4]
       ELSE IF RuleMatches(5, question_lower) THEN QuestionTypes[5]
       ELSE "general_prediction"

\* get_question_type
get_question_type(question) ==
    LET question_lower == Lower(question)
    IN IF RuleMatches(1, question_lower) THEN QuestionTypes[1]
       ELSE IF RuleMatches(2, question_lower) THEN QuestionTypes[2]
       ELSE IF RuleMatches(3, question_lower) THEN QuestionTypes[3]
       ELSE IF RuleMatches(4, question_lower) THEN QuestionTypes[4]
       ELSE IF RuleMatches(5, question_lower) THEN QuestionTypes[5]
       ELSE "general_prediction"

\* f"{int(probability // 10) * 10}-{int(probability // 10) * 10 + 10}%"
probability_bucket(probability) ==
    ToString((probability \div 10) * 10) \o "-"
        \o ToString((probability \div 10) * 10 + 10) \o "%"

\* get_probability_range
get_probability_range(probability) ==
    IF probability < 10 THEN "0-10%" ELSE IF probability < 20 THEN "10-20%"
    ELSE IF probability < 30 THEN "20-30%" ELSE IF probability < 40 THEN "30-40%"
    ELSE IF probability < 50 THEN "40-50%" ELSE IF probability < 60 THEN "50-60%"
    ELSE IF probability < 70 THEN "60-70%" ELSE IF probability < 80 THEN "70-80%"
    ELSE IF probability < 90 THEN "80-90%" ELSE "90-100%"

\* The metadata that categorize_question builds.
Metadata(question_data) ==
    LET question == IF "question" \in question_data.keys THEN question_data.question ELSE ""
        probability == GetMarket(question_data, 50)
    IN [topic |-> classify_topic(question),
        time_horizon |-> get_time_horizon(question),
        question_type |-> get_question_type(question),
        probability_bucket |-> probability_bucket(probability)]

\* The texts tried: up to MaxWords pieces of the vocabulary with single
\* spaces between them; a text of fewer pieces may end with a question mark.
MaxWords == 3
Vocabulary ==
    {"Will", "who will", "win", "be", "happen", "how many", "game", "vote",
     "2025", "20300", "next year"}
RECURSIVE Joined(_)
Joined(pieces) ==
    IF pieces = << >> THEN ""
    ELSE IF Len(pieces) = 1 THEN pieces[1]
    ELSE pieces[1] \o " " \o Joined(Tail(pieces))
Texts ==
    UNION {{Joined(pieces) \o mark : pieces \in [1..n -> Vocabulary],
                                    mark \in IF n < MaxWords THEN {"", "?"} ELSE {""}} :
           n \in 0..MaxWords}

\* question_data: a text without a market_probability, or one of two texts
\* with a market_probability in whole percent points.
TextQuestion(text, withMarket, prob) ==
    [keys |-> {"question"} \cup (IF withMarket THEN {"market_probability"} ELSE {}),
     question |-> text,
     market_probability |-> IF withMarket THEN prob ELSE 0]
TextQuestions ==
    {TextQuestion(text, FALSE, 0) : text \in Texts}
        \cup {TextQuestion(text, TRUE, prob) : text \in {"", "Will game"}, prob \in Percents}

NoQuestion == [keys |-> {}, question |-> "", market_probability |-> 0]
NoMeta == [topic |-> "", time_horizon |-> "", question_type |-> "", probability_bucket |-> ""]

CatInit ==
    /\ kQuestion \in TextQuestions
    /\ kMeta = NoMeta

CatIdle ==
    /\ kQuestion = NoQuestion
    /\ kMeta = NoMeta

\* One call of categorize_question.
CategorizeQuestion ==
    /\ kMeta = NoMeta
    /\ kMeta' = Metadata(kQuestion)
    /\ UNCHANGED <<kQuestion, scoreVars, costVars, runVars, curateVars, loadVars>>


(***************************************************************************)
(* Specifications                                                          *)
(***************************************************************************)
InitScore == ScoreInit /\ CostIdle /\ RunIdle /\ CurateIdle /\ LoadIdle /\ CatIdle
NextScore == Score /\ UNCHANGED <<costVars, runVars, curateVars, loadVars, catVars>>
SpecScore == InitScore /\ [][NextScore]_vars

InitCost == CostInit /\ ScoreIdle /\ RunIdle /\ CurateIdle /\ LoadIdle /\ CatIdle
NextCost == CalculateCost /\ UNCHANGED <<scoreVars, runVars, curateVars, loadVars, catVars>>
SpecCost == InitCost /\ [][NextCost]_vars

InitCurate == CurateInit /\ ScoreIdle /\ CostIdle /\ RunIdle /\ LoadIdle /\ CatIdle
NextCurate ==
    \/ CreateBalancedDataset
    \/ CurateDiverseQuestions
    \/ \E target_count \in TargetCounts : CategorizeAndSelect(target_count)
    \/ RunAgain
SpecCurate == InitCurate /\ [][NextCurate]_vars

InitLoad == LoadInit /\ ScoreIdle /\ CostIdle /\ RunIdle /\ CurateIdle /\ CatIdle
NextLoad ==
    \/ \E script \in Scripts : \E dataset_name \in LoaderDatasets(script) :
       \E limit \in 0..MaxQuestions : Load(script, dataset_name, limit)
    \/ \E nodes \in UpstreamNodes : FetchCurrentData(nodes)
SpecLoad == InitLoad /\ [][NextLoad]_vars

InitCat == CatInit /\ ScoreIdle /\ CostIdle /\ RunIdle /\ CurateIdle /\ LoadIdle
NextCat == CategorizeQuestion
SpecCat == InitCat /\ [][NextCat]_vars

Init == RunInit /\ ScoreIdle /\ CostIdle /\ CurateIdle /\ LoadIdle /\ CatIdle
Spec == Init /\ [][Next]_vars

(***************************************************************************)
(* C1.  An outcome that carries an 'error' gets value 0.0 and the reason   *)
(* "Error in forecast" from each of the three metrics, whatever            *)
(* probabilities the outcome and the item hold.                            *)
(***************************************************************************)
C1_ErrorOutcomeScoresZero ==
    (mScores # NoScores /\ "error" \in mOutput.keys) =>
        \A n \in MetricNames :
            /\ mScores[n].name = n
            /\ mScores[n].value = Num(0)
            /\ mScores[n].reason = <<"Error in forecast">>

\* An error outcome that also holds a probability far from the market's has been scored.
C1_Witness ==
    /\ mScores # NoScores
    /\ mOutput.keys = {"error", "probability"}
    /\ mOutput.probability = 70
    /\ GetMarket(mItem, 50) = 30

(***************************************************************************)
(* C8.  For predicted and market probabilities in [0,100] and an outcome   *)
(* without error, the Brier metric returns 1 - ((predicted - market)/100)^2*)
(* (times 10^4 here), which lies in [0,1]; predicted 70 and market 30 give *)
(* 0.84.                                                                   *)
(***************************************************************************)
C8_BrierFormulaAndRange ==
    (/\ mScores # NoScores
     /\ ~IsErrorOutput(mOutput)
     /\ "probability" \in mOutput.keys /\ mOutput.probability \in Percents
     /\ "market_probability" \in mItem.keys /\ mItem.market_probability \in Percents) =>
        LET d == mOutput.probability - mItem.market_probability
            v == mScores["brier_score"].value
        IN /\ v.form = "num"
           /\ v.a + d * d = 10000
           /\ 0 <= v.a /\ v.a <= 10000
           /\ (mOutput.probability = 70 /\ mItem.market_probability = 30) => v.a = 8400

C8_Witness ==
    /\ mScores # NoScores
    /\ mOutput.keys = {"probability", "cost"}
    /\ mOutput.probability = 70
    /\ "market_probability" \in mItem.keys /\ mItem.market_probability = 30
    /\ mScores["brier_score"].value = Num(8400)

(***************************************************************************)
(* C9.  calculate_cost never fails on a model identifier: it prices a      *)
(* model of the table with its own prices and any other model with the     *)
(* default 15.00 / 75.00 per million, and returns                          *)
(* tokens_in/1e6 * input_price + tokens_out/1e6 * output_price rounded to  *)
(* 6 decimal places: the result is a multiple of 10^-6 within half of      *)
(* 10^-6 of that sum.  An unknown model with 2000 in and 500 out costs     *)
(* 0.0675.                                                                 *)
(***************************************************************************)
C9_ExpectedPrice(model) ==
    CASE model = "claude-3-5-sonnet-20241022" -> <<300, 1500>>
      [] model = "claude-3-haiku-20240307" -> <<25, 125>>
      [] OTHER -> <<1500, 7500>>

C9_CostRoundedSum ==
    cCost # NotComputed =>
        LET price == C9_ExpectedPrice(cArgs.model)
            exact == cArgs.input_tokens * price[1] + cArgs.output_tokens * price[2]
        IN /\ cCost.status = "returned"
           /\ cCost.usd >= 0
           /\ 2 * Abs(100 * cCost.usd - exact) <= 100
           /\ (exact % 100 = 0) => 100 * cCost.usd = exact
           /\ (cArgs.model \notin DOMAIN MODEL_PRICING
                 /\ cArgs.input_tokens = 2000 /\ cArgs.output_tokens = 500) =>
                    cCost.usd = 67500

\* The spec's example has been computed, for a model that is not in the table.
C9_Witness ==
    /\ cArgs = [model |-> "gpt-4o", input_tokens |-> 2000, output_tokens |-> 500]
    /\ cCost = Returned(67500)

\* A sum that is not a multiple of 10^-6 has been rounded up.
C9_WitnessRounded ==
    /\ cArgs = [model |-> "claude-3-haiku-20240307", input_tokens |-> 3, output_tokens |-> 0]
    /\ cCost = Returned(1)

(***************************************************************************)
(* C2.  In a run over N selected questions the forecaster is called        *)
(* exactly once for each selected question and for no other item, and      *)
(* exactly N tasks execute, whatever the pool width and whatever earlier   *)
(* runs left in a tracking dataset of the same name.  Stated of a run that *)
(* has drained without a task raising.                                     *)
(***************************************************************************)
C2_Selected == {questions[k].q : k \in 1..Len(questions)}

C2_OnceForEachSelectedQuestion ==
    phase = "Finalized" =>
        /\ Cardinality(DOMAIN tasks) = Len(questions)
        /\ DOMAIN tasks = OpikItems(args.script, questions)
        /\ \A q \in 1..MaxQuestions : calls[q] = IF q \in C2_Selected THEN 1 ELSE 0

(***************************************************************************)
(* C3.  A failed forecaster call (error payload, HTTP error status,        *)
(* transport failure, timeout) never makes its task raise: the task ends   *)
(* with an outcome that carries 'error' and with the zero "Error in        *)
(* forecast" score of every metric of the run, and a task whose call       *)
(* succeeded never carries an 'error', whatever happened to its siblings.  *)
(***************************************************************************)
C3_FailureStaysWithItsItem ==
    \A i \in DOMAIN tasks :
        LET t == tasks[i]
        IN /\ (t.resp.kind \in FailureKinds) =>
                  /\ t.st = "done"
                  /\ "error" \in t.output.keys
                  /\ DOMAIN t.scores = ScoringMetrics
                  /\ \A n \in DOMAIN t.scores : t.scores[n] = ErrorScore(n)
           /\ (t.resp.kind = "success") => "error" \notin t.output.keys
           /\ (t.st = "raised") => t.resp.kind \notin FailureKinds

\* A finalized run in which one call timed out and another succeeded.
C3_Witness ==
    /\ phase = "Finalized"
    /\ \E i, j \in DOMAIN tasks :
          /\ tasks[i].resp.kind = "timeout"
          /\ tasks[j].resp.kind = "success"
          /\ tasks[j].st = "done"

(***************************************************************************)
(* C4.  Once tasks are dispatched every task ends with a success or an     *)
(* error outcome and the run ends Finalized: no task ends by raising, and  *)
(* no run ends by an exception of a task.                                  *)
(***************************************************************************)
C4_EveryTaskEndsWithAnOutcome ==
    /\ phase # "Crashed"
    /\ \A i \in DOMAIN tasks : tasks[i].st # "raised"

(***************************************************************************)
(* C5.  call_forecaster of every script gives one outcome shape: for a     *)
(* {success: true, result} response the outcome has 'probability' at top   *)
(* level and no 'error'; for every failure the outcome carries 'error'.    *)
(***************************************************************************)
C5_OutcomeIsNormalized ==
    \A i \in DOMAIN tasks :
        LET t == tasks[i]
        IN /\ (t.resp.kind = "success") =>
                  "probability" \in t.output.keys /\ "error" \notin t.output.keys
           /\ (t.resp.kind \in FailureKinds) => "error" \in t.output.keys

(***************************************************************************)
(* C6.  A run given an unknown dataset name or whose data file is missing  *)
(* ends Aborted before dispatch: no task exists, no request went to the    *)
(* forecaster and no call went to the tracking platform.                   *)
(***************************************************************************)
C6_AbortBeforeDispatch ==
    (phase # "Pending" /\ (args.dataset_name = "nonesuch" \/ args.missing)) =>
        /\ phase = "Aborted"
        /\ tasks = NoTasks
        /\ calls = NoCalls
        /\ trackLog = << >>

\* A run aborted for its missing data file, after a run that left a dataset.
C6_Witness ==
    /\ phase = "Aborted"
    /\ args.missing
    /\ args.dataset_name # "nonesuch"
    /\ store # NoDatasets

(***************************************************************************)
(* C7.  When a run is finalized each of its items has a Brier score, a log *)
(* score and a calibration score.                                          *)
(***************************************************************************)
C7_AllThreeMetrics ==
    phase = "Finalized" =>
        \A i \in DOMAIN tasks :
            {"brier_score", "log_score", "calibration"} \subseteq DOMAIN tasks[i].scores

(***************************************************************************)
(* C10.  The curated selection has exactly min(target_count, size of the   *)
(* pool after the near-duplicate cap) items.                               *)
(***************************************************************************)
\* The pool after the near-duplicate cap: the F1 questions count up to the
\* cap (categorize_and_select keeps none of them), every other question
\* counts.
C10_PoolAfterCap ==
    LET f1 == Cardinality({p \in 1..Len(cPool) : IsF1(cPool[p])})
    IN (Len(cPool) - f1) + (IF cScript = "categorize_and_select" THEN 0 ELSE Min(F1Cap, f1))

C10_SelectionSize ==
    cScript # "" => Len(cSelected) = Min(cTarget, C10_PoolAfterCap)


\* C11: the questions of a curated selection have pairwise distinct item
\* identifiers, whatever the pool.
C11_DistinctIdentifiers ==
    cScript # "" =>
        \A i, j \in 1..Len(cSelected) :
            i # j => cPool[cSelected[i]].id # cPool[cSelected[j]].id

\* The number of F1 finishing-position questions of a selection
C12_F1Count(selected) ==
    Cardinality({i \in 1..Len(selected) : IsF1(cPool[selected[i]])})

C13_SameSelectionAgain ==
    (cPrev.script # "" /\ cScript = cPrev.script /\ cTarget = cPrev.target) =>
        cSelected = cPrev.selected

\* What the claimed normalisation makes of an input value
C14_Normalized(prob) == IF prob <= Hundredths(1) THEN prob * 100 ELSE DivideLoop(prob)

\* C14: every question that a loader returns for an item with a market
\* value has its market_probability between 0 and 100, and it is the
\* normalised input value, in every dataset branch.
C14_MarketInPercentRange ==
    (lCall # NoCall /\ lResult.exit = ""
        /\ lResult = LoadQuestions(lCall.script, lCall.dataset_name, lCall.limit,
                                   lFile.items, FALSE)) =>
        \A i \in 1..Len(lResult.questions) :
            LET r == lResult.questions[i]
                input == lFile.items[r.q]
                cache == lFile.kind = "cache"
                given == IF cache THEN "current_probability" \in input.keys
                         ELSE "market_probability" \in input.keys
                value == IF cache THEN input.current_probability
                         ELSE input.market_probability
            IN given =>
                  /\ 0 <= r.market_probability
                  /\ r.market_probability <= Hundredths(100)
                  /\ r.market_probability = C14_Normalized(value)

\* C15: whatever the shape of the data file, the loader ends as it ends on
\* the same items in the other shape, and not with an exception.
C15_BothShapesAccepted ==
    lCall # NoCall =>
        /\ lResult.exit \notin {"TypeError", "AttributeError"}
        /\ \A shape \in Shapes :
              lResult = ReadAndLoad(lCall.script, lCall.dataset_name, lCall.limit,
                                    shape, lFile.items)

\* C16: for a market_probability from 0 to 100 the probability_bucket of the
\* metadata is one of the ten labels, the label of the band that holds it.
C16_BucketIsBandLabel ==
    (kMeta # NoMeta /\ "market_probability" \in kQuestion.keys
        /\ kQuestion.market_probability \in 0..100) =>
        /\ kMeta.probability_bucket \in
              {"0-10%", "10-20%", "20-30%", "30-40%", "40-50%",
               "50-60%", "60-70%", "70-80%", "80-90%", "90-100%"}
        /\ kMeta.probability_bucket = get_probability_range(kQuestion.market_probability)

\* The number of occurrences of the keywords of a topic as whole words or
\* phrases between spaces or the ends of the lower-cased text
C17_Occurrences(t, question_lower) ==
    LET padded == " " \o question_lower \o " "
        keywords == TOPIC_KEYWORDS[t].keywords
    IN Cardinality({o \in (1..Len(keywords)) \X (1..Len(padded)) :
            /\ o[2] + Len(keywords[o[1]]) + 1 <= Len(padded)
            /\ SubSeq(padded, o[2], o[2] + Len(keywords[o[1]]) + 1)
                  = " " \o keywords[o[1]] \o " "})

\* C17: classify_topic returns the topic with the most keyword occurrences,
\* every occurrence counted, and 'other' when there is none.
C17_MostOccurrencesWins ==
    kMeta # NoMeta =>
        LET question_lower == Lower(kQuestion.question)
            count == [t \in 1..Len(TOPIC_KEYWORDS) |-> C17_Occurrences(t, question_lower)]
        IN /\ (\A t \in 1..Len(TOPIC_KEYWORDS) : count[t] = 0) => kMeta.topic = "other"
           /\ \A t \in 1..Len(TOPIC_KEYWORDS) :
                (\A u \in 1..Len(TOPIC_KEYWORDS) : u # t => count[u] < count[t])
                    => kMeta.topic = TOPIC_KEYWORDS[t].topic

\* A letter or a digit
C18_WordChar(c) ==
    IsDigit(c) \/ \E i \in 1..Len(LowerLetters) : SubSeq(LowerLetters, i, i) = c

\* The keyword occurs in the lower-cased text with no letter or digit next
\* to it: between spaces, punctuation marks or the ends of the text.
C18_WholeWord(keyword, question_lower) ==
    \E i \in 1..(Len(question_lower) - Len(keyword) + 1) :
        LET end == i + Len(keyword) - 1
        IN /\ SubSeq(question_lower, i, end) = keyword
           /\ i = 1 \/ ~C18_WordChar(SubSeq(question_lower, i - 1, i - 1))
           /\ end = Len(question_lower)
                \/ ~C18_WordChar(SubSeq(question_lower, end + 1, end + 1))

\* C18: a keyword counts exactly where it occurs as a whole word, whatever
\* delimits it: with whole-word occurrences of the keywords of one topic
\* only, that topic is returned, and with none 'other'.
C18_WholeWordHits ==
    kMeta # NoMeta =>
        LET question_lower == Lower(kQuestion.question)
            hit == {t \in 1..Len(TOPIC_KEYWORDS) :
                      \E k \in 1..Len(TOPIC_KEYWORDS[t].keywords) :
                          C18_WholeWord(TOPIC_KEYWORDS[t].keywords[k], question_lower)}
        IN /\ hit = {} => kMeta.topic = "other"
           /\ \A t \in hit : hit = {t} => kMeta.topic = TOPIC_KEYWORDS[t].topic

\* The 4-digit tokens of a text that begin with "20": maximal runs of
\* digits.
C19_YearTokens(question) ==
    {SubSeq(question, i, i + 3) : i \in
        {i \in 1..(Len(question) - 3) :
            /\ SubSeq(question, i, i + 1) = "20"
            /\ IsDigit(SubSeq(question, i + 2, i + 2))
            /\ IsDigit(SubSeq(question, i + 3, i + 3))
            /\ i = 1 \/ ~IsDigit(SubSeq(question, i - 1, i - 1))
            /\ i + 3 = Len(question) \/ ~IsDigit(SubSeq(question, i + 4, i + 4))}}

\* C19: with a 4-digit token that begins with "20" the time horizon is the
\* largest such token; digits of a longer number give no year.
C19_LargestYearToken ==
    kMeta # NoMeta =>
        LET tokens == C19_YearTokens(kQuestion.question)
        IN IF tokens # {}
           THEN \E y \in tokens :
                    /\ \A z \in tokens : IntOf(z) <= IntOf(y)
                    /\ kMeta.time_horizon = y
           ELSE kMeta.time_horizon \in
                    {"no_year", ToString(current_year), ToString(current_year + 1)}

\* The rules of get_question_type that match the question
C20_Matching ==
    LET question_lower == Lower(kQuestion.question)
    IN {rule \in 1..Len(QuestionTypes) : RuleMatches(rule, question_lower)}

\* C20: the question type is the label of the first rule that matches, in
\* the order competition_outcome, threshold_question, event_occurrence,
\* numerical_prediction, selection_question, and general_prediction when
\* none matches.
C20_FirstMatchingRule ==
    kMeta # NoMeta =>
        LET matching == C20_Matching
        IN
        /\ matching = {} => kMeta.question_type = "general_prediction"
        /\ \A rule \in matching :
              (\A earlier \in matching : rule <= earlier)
                  => kMeta.question_type = QuestionTypes[rule]
        /\ QuestionTypes =
              <<"competition_outcome", "threshold_question", "event_occurrence",
                "numerical_prediction", "selection_question">>

\* A question that the first two rules match has got the label of the first.
C20_Witness ==
    /\ kMeta # NoMeta
    /\ {1, 2} \subseteq C20_Matching
    /\ kMeta.question_type = "competition_outcome"

\* C21: a question without market_probability never makes its task raise,
\* and its task is scored as with a market_probability of 50.
C21_MissingMarketIsFifty ==
    \A i \in DOMAIN tasks :
        ("market_probability" \notin i.keys /\ tasks[i].st \notin {"queued", "running"}) =>
            /\ tasks[i].st = "done"
            /\ \A n \in ScoringMetrics :
                  tasks[i].scores[n] =
                      AllScores(tasks[i].output,
                                [i EXCEPT !.keys = @ \cup {"market_probability"},
                                          !.market_probability = 50])[n]

\* C22: the result of every task that has ended with an outcome holds the
\* item it was computed from, with the identifier of its question.
C22_ResultCarriesIdentifier ==
    \A i \in DOMAIN tasks :
        tasks[i].st = "done" =>
            /\ "item" \in tasks[i].result
            /\ "id" \in tasks[i].item.keys

\* C23: the item of a task that has run has the fields and values it had
\* when it was placed in the run.
C23_ItemUnchanged ==
    \A i \in DOMAIN tasks :
        tasks[i].st \in {"done", "raised"} => tasks[i].item = i

\* The number of whole-word occurrences of the keywords of a topic in the
\* lower-cased text, every occurrence counted.
C24_HitCount(t, question_lower) ==
    LET keywords == TOPIC_KEYWORDS[t].keywords
    IN Cardinality({o \in (1..Len(keywords)) \X (1..Len(question_lower)) :
            LET end == o[2] + Len(keywords[o[1]]) - 1
            IN /\ end <= Len(question_lower)
               /\ SubSeq(question_lower, o[2], end) = keywords[o[1]]
               /\ o[2] = 1 \/ ~C18_WordChar(SubSeq(question_lower, o[2] - 1, o[2] - 1))
               /\ end = Len(question_lower)
                    \/ ~C18_WordChar(SubSeq(question_lower, end + 1, end + 1))})

\* C24: when several topics share the highest hit count, classify_topic
\* returns the one of them that the table declares first.
C24_FirstDeclaredWinsTie ==
    kMeta # NoMeta =>
        LET question_lower == Lower(kQuestion.question)
            count == [t \in 1..Len(TOPIC_KEYWORDS) |-> C24_HitCount(t, question_lower)]
            tied == {t \in 1..Len(TOPIC_KEYWORDS) :
                        /\ count[t] > 0
                        /\ \A u \in 1..Len(TOPIC_KEYWORDS) : count[u] <= count[t]}
        IN Cardinality(tied) >= 2 =>
              \E t \in tied :
                  /\ \A u \in tied : t <= u
                  /\ kMeta.topic = TOPIC_KEYWORDS[t].topic

\* What the metrics return for a predicted probability of 50
C25_ScoredAsFifty ==
    LET market == GetMarket(mItem, 50)
    IN /\ mScores["brier_score"].value = Num(10000 - (50 - market) * (50 - market))
       /\ mScores["log_score"].value = ExpLog(500, Clamp(market))
       /\ mScores["calibration"].value = Num(10000 - 100 * Abs(50 - market))

C26_Band(b) ==
    IF cScript = "create_balanced_dataset"
    THEN {p \in FilteredQuestions(cPool) : ProbBucket(cPool[p].prob) = b}
    ELSE {p \in 1..Len(cPool) : ~IsF1(cPool[p]) /\ ProbRange(cPool[p].prob) = b}

C26_Contribution(b) ==
    Cardinality({k \in 1..Len(cSelected) : cSelected[k] \in C26_Band(b)})

\* C26: in the final selection of create_balanced_dataset.py and of
\* categorize_and_select every probability band has at least
\* min(target_count div 5, |band|) of its questions.
C26_EveryBandHasItsShare ==
    cScript \in {"create_balanced_dataset", "categorize_and_select"} =>
        \A b \in 1..5 :
            C26_Contribution(b) >= Min(cTarget \div 5, Cardinality(C26_Band(b)))

\* categorize_and_select has filled a selection of 7 from five occupied
\* ranges: one range gave its share of 1 and a question of the fill, and
\* a range with more questions than its share gave the share only.
C26_Witness ==
    /\ cScript = "categorize_and_select"
    /\ cTarget = 7
    /\ Len(cSelected) = 7
    /\ \A b \in 1..5 : C26_Band(b) # {}
    /\ \E b \in 1..5 : C26_Contribution(b) > cTarget \div 5
    /\ \E b \in 1..5 : C26_Contribution(b) = cTarget \div 5
                         /\ Cardinality(C26_Band(b)) > cTarget \div 5

\* C27: for every outcome that is scored, whatever the predicted and the
\* market value, the log score is computed from a predicted probability p
\* and a market probability m in [0.001, 0.999] (held in thousandths): the
\* arguments p and 1-p of the logarithm are strictly positive, the weights
\* m and 1-m are positive, so the raw score is at most 0, and the value
\* exp(raw), the weighted geometric mean of p and 1-p, lies between the
\* smaller and the larger of them, within (0, 1].
C27_LogScoreClamped ==
    (mScores # NoScores /\ mOutput.keys # {} /\ "error" \notin mOutput.keys) =>
        LET v == mScores["log_score"].value
            p == v.a
            m == v.b
        IN /\ v.form = "exp_log"
           /\ p >= 1 /\ p <= 999
           /\ m >= 1 /\ m <= 999
           /\ 1000 - p > 0 /\ 1000 - m > 0
           /\ Min(p, 1000 - p) > 0
           /\ Max(p, 1000 - p) <= 1000

\* A predicted probability of 0 has been scored against a market
\* probability of 100.
C27_Witness ==
    /\ mScores # NoScores
    /\ mOutput.keys = {"probability"} /\ mOutput.probability = 0
    /\ "market_probability" \in mItem.keys /\ mItem.market_probability = 100
    /\ mScores["log_score"].value = ExpLog(1, 999)

\* The number of divisions the loop makes on a value
RECURSIVE C28_Divisions(_)
C28_Divisions(prob) ==
    IF prob > Hundredths(100) THEN 1 + C28_Divisions(prob \div 100) ELSE 0

\* C28: the 'balanced' branch of evaluate_with_meta.py ends its division
\* loop on every market value (after no more divisions than the value has
\* pairs of digits above 100) and returns a value from 0 to 100, which for
\* a stored value above 100 is above 1.
C28_DivideLoopLeavesPercent ==
    (lCall.script = "evaluate_with_meta" /\ lCall.dataset_name = "balanced"
        /\ lFile.shape = "object") =>
        /\ lResult.exit = ""
        /\ \A i \in 1..Len(lResult.questions) :
              LET r == lResult.questions[i]
                  input == lFile.items[CHOOSE j \in 1..Len(lFile.items) : lFile.items[j].q = r.q]
                  stored == GetMarket(input, Hundredths(50))
              IN /\ "market_probability" \in r.keys
                 /\ r.market_probability >= 0
                 /\ r.market_probability <= Hundredths(100)
                 /\ stored > Hundredths(100) => r.market_probability > Hundredths(1)
                 /\ C28_Divisions(stored) <= 2
                 /\ stored > Hundredths(10000) => C28_Divisions(stored) = 2

\* The 'balanced' branch has returned a question stored with 150 as 1.5 and
\* a question stored with 20000, divided twice, as 2.
C28_Witness ==
    /\ lCall.script = "evaluate_with_meta" /\ lCall.dataset_name = "balanced"
    /\ lResult.exit = ""
    /\ Len(lResult.questions) = 2
    /\ lFile.items[1].market_probability = Hundredths(150)
    /\ lResult.questions[1].market_probability = 150
    /\ lFile.items[2].market_probability = Hundredths(20000)
    /\ lResult.questions[2].market_probability = Hundredths(2)

\* C29: a question that load_dataset('current') returns from the file that
\* fetch_current_data.py made has the market_probability 100 * f of the
\* upstream fraction f of its node.
C29_FetchedValueIsKept ==
    (lNodes # << >> /\ lCall.script \in {"evaluate", "evaluate_with_meta"}
        /\ lCall.dataset_name = "current" /\ lResult.exit = "") =>
        \A i \in 1..Len(lResult.questions) :
            LET r == lResult.questions[i]
            IN r.market_probability = 100 * lNodes[r.q].probability

\* The questions of the data file that survive the filtering of the
\* branch of the call
C30_Eligible ==
    LET Test(q) ==
            CASE lCall.script = "evaluate_with_meta" /\ lCall.dataset_name = "current" ->
                    ~q.resolved
              [] lCall.dataset_name = "metaforecast" -> "current_probability" \in q.keys
              [] lCall.script = "evaluate_v2" -> DatasetFilter(lCall.dataset_name, q)
              [] OTHER -> TRUE
    IN FilterSeq(Test, lFile.items)

\* C30: a loader that returns questions for a call with limit L returns
\* min(L, E) of them, E being the number of eligible questions.
C30_LimitIsExact ==
    (lCall # NoCall /\ lResult.exit = ""
        /\ lResult = LoadQuestions(lCall.script, lCall.dataset_name, lCall.limit,
                                   lFile.items, FALSE)) =>
        Len(lResult.questions) = Min(lCall.limit, Len(C30_Eligible))
=========================================================================
